---- MODULE Spec2Model ----
(***************************************************************************)
(* A model of ggufmeta: the byte scanner (cmd/ggufmeta/scanner.go), the    *)
(* value decoder with its two-pass array policy (values.go, kept as        *)
(* src/unnamed/part_000), the parser (cmd/ggufmeta/parser.go, listed in    *)
(* README.md) and the driver loop of main (cmd/ggufmeta/main.go).          *)
(*                                                                         *)
(* Numbers of 16, 32 and 64 bits are kept as digit strings in base 256,    *)
(* most significant digit first, so that the two byte orders, the full     *)
(* width of a count and the decrement of kvRemain are exact.               *)
(***************************************************************************)
EXTENDS Integers, Sequences, FiniteSets, TLC

VARIABLES scn, p, hdr, ret, pol, alignBeforeValue, keys, mpc, out, nTrue, failed, input

vars == <<scn, p, hdr, ret, pol, alignBeforeValue, keys, mpc, out, nTrue, failed, input>>

RECURSIVE DigitsVal(_), Dec(_), Inc(_), AddNat(_, _), Flatten(_)
RECURSIVE bulkSkipArrayElements(_, _, _), SkipLoop(_, _, _, _), ExpandLoop(_, _, _, _, _)
RECURSIVE SkipLoop_NoRecurse(_, _, _, _), ExpandLoop_Recursive(_, _, _, _, _)
RECURSIVE Replay(_), NestDepth(_)
RECURSIVE Payload(_, _), EncEntries(_, _, _, _), TrimLeft(_)

-----------------------------------------------------------------------------
(* Bounds of the model *)

\* longest string the policy accepts (--max-string)
MaxString == 2
\* inline threshold of the policy (--max-array)
MaxArray == 2
\* largest well-formed element count the inputs declare
MaxCount == 3
\* how many bytes an input may lose at its end
MaxCut == 2

-----------------------------------------------------------------------------
(* Digit strings *)

Zeros(w) == [i \in 1..w |-> 0]

Reverse(b) == [i \in 1..Len(b) |-> b[Len(b) + 1 - i]]

DigitsVal(d) == IF d = <<>> THEN 0 ELSE DigitsVal(SubSeq(d, 1, Len(d) - 1)) * 256 + d[Len(d)]

\* a value no length, count or tag of the model reaches
Huge == 256 * 256 * 256

\* the value of a digit string, exact below Huge and Huge from there on; it
\* is only ever compared with numbers below Huge
NatOf(d) ==
    IF Len(d) > 3 /\ \E i \in 1..(Len(d) - 3) : d[i] # 0
    THEN Huge
    ELSE DigitsVal(IF Len(d) > 3 THEN SubSeq(d, Len(d) - 2, Len(d)) ELSE d)

\* n < Huge as w digits
FromNat(n, w) ==
    [i \in 1..w |-> IF w - i > 2 THEN 0
                    ELSE IF w - i = 2 THEN (n \div 65536) % 256
                    ELSE IF w - i = 1 THEN (n \div 256) % 256
                    ELSE n % 256]

\* d - 1 in the width of d (wrapping)
Dec(d) ==
    IF d = <<>> THEN <<>>
    ELSE IF d[Len(d)] > 0 THEN [d EXCEPT ![Len(d)] = @ - 1]
    ELSE Append(Dec(SubSeq(d, 1, Len(d) - 1)), 255)

\* d + 1 in the width of d (wrapping)
Inc(d) ==
    IF d = <<>> THEN <<>>
    ELSE IF d[Len(d)] < 255 THEN [d EXCEPT ![Len(d)] = @ + 1]
    ELSE Append(Inc(SubSeq(d, 1, Len(d) - 1)), 0)

AddNat(d, k) == IF k = 0 THEN d ELSE AddNat(Inc(d), k - 1)

Flatten(ss) == IF ss = <<>> THEN <<>> ELSE Head(ss) \o Flatten(Tail(ss))

-----------------------------------------------------------------------------
(* types.go *)

magicGGUF == <<71, 71, 85, 70>>

tUint8 == 0
tInt8 == 1
tUint16 == 2
tInt16 == 3
tUint32 == 4
tInt32 == 5
tFloat32 == 6
tBool == 7
tString == 8
tArray == 9
tUint64 == 10
tInt64 == 11
tFloat64 == 12

typeNames == <<"uint8", "int8", "uint16", "int16", "uint32", "int32", "float32",
               "bool", "string", "array", "uint64", "int64", "float64">>

\* typeNames[tag], the table being indexed from 0 in the source
TypeName(tagNat) == typeNames[tagNat + 1]

-----------------------------------------------------------------------------
(* Errors.  An error value is a string; nil is "nil". *)

nil == "nil"
ErrEOF == "EOF"
ErrUnexpectedEOF == "unexpected EOF"
ErrStringTooLarge == "string too large"
ErrBadScalarTag == "bad scalar tag"
ErrHeader == "failed to read GGUF header"
ErrBadMagic == "bad magic"
ErrVersion == "unsupported GGUF version"
\* a run-time panic of the Go runtime: index out of range
Panic == "panic: index out of range"

IsShortRead(e) == e \in {ErrEOF, ErrUnexpectedEOF}

-----------------------------------------------------------------------------
(* scanner.go.  A scanner state s is                                       *)
(*   data, off : the io.Reader r: its bytes and how many were taken        *)
(*   order     : "nil", "LE" or "BE"                                       *)
(*   pos       : the position counter                                      *)
(*   log       : what the current call did (not program state)             *)
(* Every read returns [s, v, err].                                         *)

\* frames counts the calls of bulkSkipArrayElements that have not returned
newScanner(data) ==
    [data |-> data, off |-> 0, order |-> "nil", pos |-> 0, log |-> <<>>, frames |-> 0]

Note(s, ev) == [s EXCEPT !.log = Append(@, ev)]

\* io.ReadFull takes what is there; pos moves only when all n bytes came
readExact(s, n) ==
    LET avail == Len(s.data) - s.off
        ev(ok) == [op |-> "readExact", n |-> n, ok |-> ok, pos0 |-> s.pos, off0 |-> s.off]
    IN  IF n <= avail
        THEN [s |-> Note([s EXCEPT !.off = @ + n, !.pos = @ + n], ev(TRUE)),
              v |-> SubSeq(s.data, s.off + 1, s.off + n),
              err |-> nil]
        ELSE [s |-> Note([s EXCEPT !.off = Len(s.data)], ev(FALSE)),
              v |-> SubSeq(s.data, s.off + 1, Len(s.data)) \o Zeros(n - avail),
              err |-> IF avail = 0 THEN ErrEOF ELSE ErrUnexpectedEOF]

b(s, n) == readExact(s, n)

\* binary.LittleEndian / binary.BigEndian .UintNN: the digits of the value
LittleEndian(bytes) == Reverse(bytes)
BigEndian(bytes) == bytes
orderUint(order, bytes) == IF order = "LE" THEN LittleEndian(bytes) ELSE BigEndian(bytes)

U8(s) ==
    LET got(r) == IF r.err # nil THEN [s |-> r.s, v |-> <<0>>, err |-> r.err]
                  ELSE [s |-> r.s, v |-> r.v, err |-> nil]
    IN  got(readExact(s, 1))

I8(s) == U8(s)

U16(s) ==
    LET got(r) == IF r.err # nil THEN [s |-> r.s, v |-> Zeros(2), err |-> r.err]
                  ELSE [s |-> r.s, v |-> orderUint(s.order, r.v), err |-> nil]
    IN  got(readExact(s, 2))

I16(s) == U16(s)

U32(s) ==
    LET got(r) == IF r.err # nil THEN [s |-> r.s, v |-> Zeros(4), err |-> r.err]
                  ELSE [s |-> r.s, v |-> orderUint(s.order, r.v), err |-> nil]
    IN  got(readExact(s, 4))

I32(s) == U32(s)

U64(s) ==
    LET got(r) == IF r.err # nil THEN [s |-> r.s, v |-> Zeros(8), err |-> r.err]
                  ELSE [s |-> r.s, v |-> orderUint(s.order, r.v), err |-> nil]
    IN  got(readExact(s, 8))

I64(s) == U64(s)

F32(s) == U32(s)

F64(s) == U64(s)

\* the result of GGUFString, noted in the log: the length n that was read,
\* the error, the string, and the position and reader offset before and after
StringResult(s, max, n, q, e, str) ==
    [s |-> Note(q, [op |-> "GGUFString", max |-> max, n |-> n, err |-> e, v |-> str,
                    pos0 |-> s.pos, off0 |-> s.off, pos1 |-> q.pos, off1 |-> q.off]),
     v |-> str, err |-> e]

\* GGUFString reading the bytes before it looks at the cap
GGUFString_ReadFirst(s, max) ==
    LET gotBytes(r, q) == IF NatOf(r.v) > max
                          THEN StringResult(s, max, r.v, q.s, ErrStringTooLarge, <<>>)
                          ELSE IF q.err # nil THEN StringResult(s, max, r.v, q.s, q.err, <<>>)
                          ELSE StringResult(s, max, r.v, q.s, nil, q.v)
        gotLen(r) == IF r.err # nil THEN StringResult(s, max, r.v, r.s, r.err, <<>>)
                     ELSE gotBytes(r, b(r.s, NatOf(r.v)))
    IN  gotLen(U64(s))

GGUFString(s, max) ==
    LET gotBytes(r, q) == IF q.err # nil THEN StringResult(s, max, r.v, q.s, q.err, <<>>)
                          ELSE StringResult(s, max, r.v, q.s, nil, q.v)
        gotLen(r) == IF r.err # nil THEN StringResult(s, max, r.v, r.s, r.err, <<>>)
                     ELSE IF NatOf(r.v) > max
                     THEN StringResult(s, max, r.v, r.s, ErrStringTooLarge, <<>>)
                     ELSE gotBytes(r, b(r.s, NatOf(r.v)))
    IN  gotLen(U64(s))

Align(s, n) ==
    LET got(r) == [s |-> r.s, err |-> r.err]
    IN  IF n = 0 THEN [s |-> s, err |-> nil]
        ELSE IF s.pos % n # 0 THEN got(b(s, n - (s.pos % n)))
        ELSE [s |-> s, err |-> nil]

Align8(s) == Align(s, 8)

-----------------------------------------------------------------------------
(* values.go (src/unnamed/part_000).  A decoded value carries its Go       *)
(* dynamic type in the field go; numbers keep their digits.                *)

goNil == [go |-> "nil"]

\* the decoder table: the scanner method each entry calls, "nil" for none
scalars == <<"U8", "I8", "U16", "I16", "U32", "I32", "F32", "bool",
             "nil", "nil", "U64", "I64", "F64">>

\* scalars[tag](s): the value with its Go type
ScalarDec(tagNat, s) ==
    LET d == scalars[tagNat + 1]
        got(r) == [s |-> r.s, err |-> r.err,
                   v |-> [go |-> TypeName(tagNat),
                          v |-> IF d = "bool" THEN (IF r.v # <<0>> THEN <<1>> ELSE <<0>>)
                                ELSE r.v]]
    IN  CASE d \in {"U8", "I8", "bool"} -> got(U8(s))
          [] d \in {"U16", "I16"} -> got(U16(s))
          [] d \in {"U32", "I32", "F32"} -> got(U32(s))
          [] OTHER -> got(U64(s))

typeLabel(tag, shape) ==
    IF NatOf(tag) < Len(typeNames)
    THEN IF shape = "" THEN TypeName(NatOf(tag)) ELSE TypeName(NatOf(tag)) \o shape
    ELSE IF shape = "" THEN "unknown(" \o ToString(NatOf(tag)) \o ")"
    ELSE "unknown(" \o ToString(NatOf(tag)) \o ")" \o shape

\* readScalar putting nil in the place of a value whose tag it does not know
readScalar_Lenient(s, tag) ==
    LET gotString(r) ==
            IF r.err # nil THEN [s |-> r.s, v |-> goNil, typ |-> "", err |-> r.err]
            ELSE [s |-> r.s, v |-> [go |-> "string", v |-> r.v], typ |-> "string", err |-> nil]
        gotScalar(r) ==
            IF r.err # nil THEN [s |-> r.s, v |-> goNil, typ |-> "", err |-> r.err]
            ELSE [s |-> r.s, v |-> r.v, typ |-> typeLabel(tag, ""), err |-> nil]
    IN  IF NatOf(tag) = tString THEN gotString(GGUFString(s, pol.maxString))
        ELSE IF NatOf(tag) >= Len(scalars) \/ scalars[NatOf(tag) + 1] = "nil"
        THEN [s |-> s, v |-> goNil, typ |-> typeLabel(tag, ""), err |-> nil]
        ELSE gotScalar(ScalarDec(NatOf(tag), s))

\* returns [s, v, typ, err]
readScalar(s, tag) ==
    LET gotString(r) ==
            IF r.err # nil THEN [s |-> r.s, v |-> goNil, typ |-> "", err |-> r.err]
            ELSE [s |-> r.s, v |-> [go |-> "string", v |-> r.v], typ |-> "string", err |-> nil]
        gotScalar(r) ==
            IF r.err # nil THEN [s |-> r.s, v |-> goNil, typ |-> "", err |-> r.err]
            ELSE [s |-> r.s, v |-> r.v, typ |-> typeLabel(tag, ""), err |-> nil]
    IN  IF NatOf(tag) = tString THEN gotString(GGUFString(s, pol.maxString))
        ELSE IF NatOf(tag) >= Len(scalars) \/ scalars[NatOf(tag) + 1] = "nil"
        THEN [s |-> s, v |-> goNil, typ |-> "", err |-> ErrBadScalarTag]
        ELSE gotScalar(ScalarDec(NatOf(tag), s))

\* main.go: the capacity a count is turned into (maxInt is 2^63 - 1)
safeCapFromCount(n) == IF n[1] >= 128 THEN <<127>> \o [i \in 1..7 |-> 255] ELSE n

\* a nested array header, noted in the log with the position after it
NoteNested(s, by, et, n) ==
    Note(s, [op |-> "nested", by |-> by, et |-> et, n |-> n, pos |-> s.pos, off |-> s.off])

\* the skip loop passing over the header of a nested array and not over
\* the elements of that array
SkipLoop_NoRecurse(s, elementType, count, i) ==
    LET gotN(c) == IF c.err # nil THEN [s |-> c.s, err |-> c.err]
                   ELSE SkipLoop_NoRecurse(c.s, elementType, count, i + 1)
        gotET(e) == IF e.err # nil THEN [s |-> e.s, err |-> e.err] ELSE gotN(U64(e.s))
        gotScalar(r) == IF r.err # nil THEN [s |-> r.s, err |-> r.err]
                        ELSE SkipLoop_NoRecurse(r.s, elementType, count, i + 1)
    IN  IF ~(i < NatOf(count)) THEN [s |-> s, err |-> nil]
        ELSE IF NatOf(elementType) = tArray THEN gotET(U32(s))
        ELSE gotScalar(readScalar(s, elementType))

\* the loop of bulkSkipArrayElements from index i on
SkipLoop(s, elementType, count, i) ==
    LET gotSkip(k) == IF k.err # nil THEN [s |-> k.s, err |-> k.err]
                      ELSE SkipLoop(k.s, elementType, count, i + 1)
        gotN(nestedET, c) ==
            IF c.err # nil THEN [s |-> c.s, err |-> c.err]
            ELSE gotSkip(bulkSkipArrayElements(NoteNested(c.s, "skip", nestedET, c.v),
                                               nestedET, c.v))
        gotET(e) == IF e.err # nil THEN [s |-> e.s, err |-> e.err]
                    ELSE gotN(e.v, U64(e.s))
        gotScalar(r) == IF r.err # nil THEN [s |-> r.s, err |-> r.err]
                        ELSE SkipLoop(r.s, elementType, count, i + 1)
    IN  IF ~(i < NatOf(count)) THEN [s |-> s, err |-> nil]
        ELSE IF NatOf(elementType) = tArray THEN gotET(U32(s))
        ELSE gotScalar(readScalar(s, elementType))

\* returns [s, err]
\* the call takes a frame, noted in the log with the number of frames then
\* active, runs its loop and gives the frame back when it returns
bulkSkipArrayElements(s, elementType, count) ==
    LET enter(q) == Note([q EXCEPT !.frames = @ + 1],
                         [op |-> "skipFrame", depth |-> q.frames + 1, et |-> elementType])
        leave(r) == [s |-> [r.s EXCEPT !.frames = @ - 1], err |-> r.err]
    IN  leave(SkipLoop(enter(s), elementType, count, 0))

\* the placeholder of a nested array; typeNames is indexed without a check
NestedPlaceholder(nestedET, nestedN) ==
    [go |-> "map", _placeholder |-> "nested_array", count |-> nestedN,
     element_type |-> TypeName(NatOf(nestedET))]

\* the expand loop expanding a nested array into the sequence of its
\* elements, at every depth
ExpandLoop_Recursive(s, elementType, count, i, results) ==
    LET gotNested(r) ==
            IF r.err # nil THEN [s |-> r.s, v |-> goNil, err |-> r.err]
            ELSE ExpandLoop_Recursive(r.s, elementType, count, i + 1, Append(results, r.v))
        gotN(nestedET, c) ==
            IF c.err # nil THEN [s |-> c.s, v |-> goNil, err |-> c.err]
            ELSE gotNested(ExpandLoop_Recursive(NoteNested(c.s, "expand", nestedET, c.v),
                                                nestedET, c.v, 0, <<>>))
        gotET(e) == IF e.err # nil THEN [s |-> e.s, v |-> goNil, err |-> e.err] ELSE gotN(e.v, U64(e.s))
        gotScalar(r) == IF r.err # nil THEN [s |-> r.s, v |-> goNil, err |-> r.err]
                        ELSE ExpandLoop_Recursive(r.s, elementType, count, i + 1, Append(results, r.v))
    IN  IF ~(i < NatOf(count)) THEN [s |-> s, v |-> [go |-> "slice", elems |-> results], err |-> nil]
        ELSE IF NatOf(elementType) = tArray THEN gotET(U32(s))
        ELSE gotScalar(readScalar(s, elementType))

\* the loop of readExpandedArray from index i on
ExpandLoop(s, elementType, count, i, results) ==
    LET gotSkip(nestedET, nestedN, k) ==
            IF k.err # nil THEN [s |-> k.s, v |-> goNil, err |-> k.err]
            ELSE IF ~(NatOf(nestedET) < Len(typeNames))
            THEN [s |-> k.s, v |-> goNil, err |-> Panic]
            ELSE ExpandLoop(k.s, elementType, count, i + 1,
                            Append(results, NestedPlaceholder(nestedET, nestedN)))
        gotN(nestedET, c) ==
            IF c.err # nil THEN [s |-> c.s, v |-> goNil, err |-> c.err]
            ELSE gotSkip(nestedET, c.v,
                         bulkSkipArrayElements(NoteNested(c.s, "expand", nestedET, c.v),
                                               nestedET, c.v))
        gotET(e) == IF e.err # nil THEN [s |-> e.s, v |-> goNil, err |-> e.err]
                    ELSE gotN(e.v, U64(e.s))
        gotScalar(r) == IF r.err # nil THEN [s |-> r.s, v |-> goNil, err |-> r.err]
                        ELSE ExpandLoop(r.s, elementType, count, i + 1, Append(results, r.v))
    IN  IF ~(i < NatOf(count))
        THEN [s |-> s, v |-> [go |-> "slice", elems |-> results], err |-> nil]
        ELSE IF NatOf(elementType) = tArray THEN gotET(U32(s))
        ELSE gotScalar(readScalar(s, elementType))

\* returns [s, v, typ, err]; the capacity asked of make is noted in the log
readExpandedArray(s, elementType, count, elemName) ==
    LET got(r) == IF r.err # nil THEN [s |-> r.s, v |-> goNil, typ |-> "", err |-> r.err]
                  ELSE [s |-> r.s, v |-> r.v, typ |-> "array[" \o elemName \o "]", err |-> nil]
    IN  got(ExpandLoop(Note(s, [op |-> "make", cap |-> safeCapFromCount(count),
                                count |-> count]),
                       elementType, count, 0, <<>>))

\* strings.HasPrefix
HasPrefix(str, prefix) ==
    Len(prefix) <= Len(str) /\ SubSeq(str, 1, Len(prefix)) = prefix

\* the decision of readArray: exact key first, then the prefixes
shouldExpand(key) ==
    key \in pol.expandArrays
        \/ \E i \in 1..Len(pol.expandPrefixes) : HasPrefix(key, pol.expandPrefixes[i])

\* the name readArray gives the element type
ElemName(et) == IF NatOf(et) < Len(typeNames) THEN TypeName(NatOf(et)) ELSE "unknown"

\* readArray letting the size threshold overrule an explicit rule
readArray_SizeFirst(s, key) ==
    LET fail(q, er) == [s |-> q, v |-> goNil, typ |-> "", omitted |-> FALSE, err |-> er]
        gotExpanded(x) == [s |-> x.s, v |-> x.v, typ |-> x.typ, omitted |-> FALSE, err |-> x.err]
        gotSkip(et, n, k) ==
            IF k.err # nil THEN fail(k.s, k.err)
            ELSE [s |-> k.s,
                  v |-> [go |-> "map", _placeholder |-> "array", count |-> n,
                         element_type |-> ElemName(et)],
                  typ |-> "array[" \o ElemName(et) \o "]", omitted |-> FALSE, err |-> nil]
        decide(et, n, s1) ==
            IF shouldExpand(key) /\ NatOf(n) <= pol.maxArray
            THEN gotExpanded(readExpandedArray(s1, et, n, ElemName(et)))
            ELSE gotSkip(et, n, bulkSkipArrayElements(s1, et, n))
        gotN(et, c) ==
            IF c.err # nil THEN fail(c.s, c.err)
            ELSE decide(et, c.v, Note(c.s, [op |-> "readArray", key |-> key, et |-> et,
                                            n |-> c.v, pos |-> c.s.pos, off |-> c.s.off]))
        gotET(e) == IF e.err # nil THEN fail(e.s, e.err) ELSE gotN(e.v, U64(e.s))
    IN  gotET(U32(s))

\* returns [s, v, typ, omitted, err]; the header is noted in the log with
\* the position after it
readArray(s, key) ==
    LET fail(q, er) == [s |-> q, v |-> goNil, typ |-> "", omitted |-> FALSE, err |-> er]
        gotExpanded(x) == [s |-> x.s, v |-> x.v, typ |-> x.typ, omitted |-> FALSE, err |-> x.err]
        gotSkip(et, n, k) ==
            IF k.err # nil THEN fail(k.s, k.err)
            ELSE [s |-> k.s,
                  v |-> [go |-> "map", _placeholder |-> "array", count |-> n,
                         element_type |-> ElemName(et)],
                  typ |-> "array[" \o ElemName(et) \o "]", omitted |-> FALSE, err |-> nil]
        decide(et, n, s1) ==
            IF shouldExpand(key) THEN gotExpanded(readExpandedArray(s1, et, n, ElemName(et)))
            ELSE gotSkip(et, n, bulkSkipArrayElements(s1, et, n))
        gotN(et, c) ==
            IF c.err # nil THEN fail(c.s, c.err)
            ELSE decide(et, c.v, Note(c.s, [op |-> "readArray", key |-> key, et |-> et,
                                            n |-> c.v, pos |-> c.s.pos, off |-> c.s.off]))
        gotET(e) == IF e.err # nil THEN fail(e.s, e.err) ELSE gotN(e.v, U64(e.s))
    IN  gotET(U32(s))

\* returns [s, v, typ, omitted, err]
readValue(s, tag, key) ==
    LET gotScalar(r) == [s |-> r.s, v |-> r.v, typ |-> r.typ, omitted |-> FALSE, err |-> r.err]
        aligned(a) ==
            IF a.err # nil
            THEN [s |-> a.s, v |-> goNil, typ |-> "", omitted |-> FALSE, err |-> a.err]
            ELSE IF NatOf(tag) = tArray THEN readArray(a.s, key)
            ELSE gotScalar(readScalar(a.s, tag))
    IN  IF alignBeforeValue THEN aligned(Align8(s)) ELSE aligned([s |-> s, err |-> nil])

-----------------------------------------------------------------------------
(* parser.go (src/README.md).  A parser is its fields but scn, which is    *)
(* the variable scn; null marks the nil pointer.                           *)

nilParser == [null |-> TRUE, fileSize |-> 0, endianHint |-> "", kvRemain |-> Zeros(8),
              version |-> Zeros(4), tc |-> Zeros(8), kv |-> Zeros(8)]

noHeader == [Kind |-> "", Version |-> Zeros(4), TensorCount |-> Zeros(8), KVCount |-> Zeros(8)]

noEvent == [Key |-> <<>>, Type |-> "", Value |-> goNil]

Three == <<0, 0, 0, 3>>

\* headerOrder with the two orders taken for each other
headerOrder_Swapped(headerBytes) ==
    LET versionLE == LittleEndian(SubSeq(headerBytes, 5, 8))
        versionBE == BigEndian(SubSeq(headerBytes, 5, 8))
    IN  IF versionLE = Three THEN "BE" ELSE IF versionBE = Three THEN "LE" ELSE "nil"

\* the byte order the version field (bytes 4-7) fixes, "nil" for none
headerOrder(headerBytes) ==
    LET versionLE == LittleEndian(SubSeq(headerBytes, 5, 8))
        versionBE == BigEndian(SubSeq(headerBytes, 5, 8))
    IN  IF versionLE = Three THEN "LE" ELSE IF versionBE = Three THEN "BE" ELSE "nil"

\* newParser looking at the version before the magic
newParser_VersionFirst(data, size) ==
    LET fail(q, er) == [s |-> q, p |-> nilParser, hdr |-> noHeader, err |-> er]
        made(q, order, tc, kv) ==
            [s |-> [q EXCEPT !.order = order],
             p |-> [null |-> FALSE, fileSize |-> size, endianHint |-> order, kvRemain |-> kv,
                    version |-> Three, tc |-> tc, kv |-> kv],
             hdr |-> [Kind |-> "header", Version |-> Three, TensorCount |-> tc, KVCount |-> kv],
             err |-> nil]
        ordered(q, headerBytes, order) ==
            IF order = "nil" THEN fail(q, ErrVersion)
            ELSE IF SubSeq(headerBytes, 1, 4) # magicGGUF THEN fail(q, ErrBadMagic)
            ELSE made(q, order, orderUint(order, SubSeq(headerBytes, 9, 16)),
                      orderUint(order, SubSeq(headerBytes, 17, 24)))
        got(h) == IF h.err # nil THEN fail(h.s, ErrHeader)
                  ELSE ordered(h.s, h.v, headerOrder(h.v))
    IN  got(readExact(newScanner(data), 24))

\* returns [s, p, hdr, err]
newParser(data, size) ==
    LET fail(q, er) == [s |-> q, p |-> nilParser, hdr |-> noHeader, err |-> er]
        made(q, order, tc, kv) ==
            [s |-> [q EXCEPT !.order = order],
             p |-> [null |-> FALSE, fileSize |-> size, endianHint |-> order, kvRemain |-> kv,
                    version |-> Three, tc |-> tc, kv |-> kv],
             hdr |-> [Kind |-> "header", Version |-> Three, TensorCount |-> tc, KVCount |-> kv],
             err |-> nil]
        ordered(q, headerBytes, order) ==
            IF order = "nil" THEN fail(q, ErrVersion)
            ELSE made(q, order, orderUint(order, SubSeq(headerBytes, 9, 16)),
                      orderUint(order, SubSeq(headerBytes, 17, 24)))
        got(h) == IF h.err # nil THEN fail(h.s, ErrHeader)
                  ELSE IF SubSeq(h.v, 1, 4) # magicGGUF THEN fail(h.s, ErrBadMagic)
                  ELSE ordered(h.s, h.v, headerOrder(h.v))
    IN  got(readExact(newScanner(data), 24))

\* nextKV counting the entry before it is decoded
nextKV_CountFirst(pp, s) ==
    LET fail(q, er, k) == [s |-> q, p |-> [pp EXCEPT !.kvRemain = Dec(@)], kv |-> noEvent,
                           ok |-> FALSE, err |-> er, key |-> k]
        gotValue(k, r) ==
            IF r.err # nil THEN fail(r.s, r.err, k.v)
            ELSE [s |-> r.s, p |-> [pp EXCEPT !.kvRemain = Dec(@)],
                  kv |-> IF r.omitted THEN noEvent
                         ELSE [Key |-> k.v, Type |-> r.typ, Value |-> r.v],
                  ok |-> TRUE, err |-> nil, key |-> <<>>]
        gotTag(k, t) == IF t.err # nil THEN fail(t.s, t.err, k.v)
                        ELSE gotValue(k, readValue(t.s, t.v, k.v))
        gotKey(k) == IF k.err # nil THEN fail(k.s, k.err, <<>>) ELSE gotTag(k, U32(k.s))
    IN  IF pp.kvRemain = Zeros(8)
        THEN [s |-> s, p |-> pp, kv |-> noEvent, ok |-> FALSE, err |-> nil, key |-> <<>>]
        ELSE gotKey(GGUFString(s, pol.maxString))

\* nextKV looking at kvRemain only after it has read the key
nextKV_KeyFirst(pp, s) ==
    LET fail(q, er, k) == [s |-> q, p |-> pp, kv |-> noEvent, ok |-> FALSE, err |-> er, key |-> k]
        gotValue(k, r) ==
            IF r.err # nil THEN fail(r.s, r.err, k.v)
            ELSE [s |-> r.s, p |-> [pp EXCEPT !.kvRemain = Dec(@)],
                  kv |-> IF r.omitted THEN noEvent
                         ELSE [Key |-> k.v, Type |-> r.typ, Value |-> r.v],
                  ok |-> TRUE, err |-> nil, key |-> <<>>]
        gotTag(k, t) == IF t.err # nil THEN fail(t.s, t.err, k.v)
                        ELSE gotValue(k, readValue(t.s, t.v, k.v))
        gotKey(k) == IF pp.kvRemain = Zeros(8) THEN fail(k.s, nil, <<>>)
                     ELSE IF k.err # nil THEN fail(k.s, k.err, <<>>) ELSE gotTag(k, U32(k.s))
    IN  gotKey(GGUFString(s, pol.maxString))

\* returns [s, p, kv, ok, err, key]: key is the key an error is wrapped with
nextKV(pp, s) ==
    LET fail(q, er, k) == [s |-> q, p |-> pp, kv |-> noEvent, ok |-> FALSE, err |-> er, key |-> k]
        gotValue(k, r) ==
            IF r.err # nil THEN fail(r.s, r.err, k.v)
            ELSE [s |-> r.s, p |-> [pp EXCEPT !.kvRemain = Dec(@)],
                  kv |-> IF r.omitted THEN noEvent
                         ELSE [Key |-> k.v, Type |-> r.typ, Value |-> r.v],
                  ok |-> TRUE, err |-> nil, key |-> <<>>]
        gotTag(k, t) == IF t.err # nil THEN fail(t.s, t.err, k.v)
                        ELSE gotValue(k, readValue(t.s, t.v, k.v))
        gotKey(k) == IF k.err # nil THEN fail(k.s, k.err, <<>>) ELSE gotTag(k, U32(k.s))
    IN  IF pp.kvRemain = Zeros(8) THEN fail(s, nil, <<>>)
        ELSE gotKey(GGUFString(s, pol.maxString))

-----------------------------------------------------------------------------
(* The inputs: files written entry by entry, then cut short.  A value is   *)
(*   t     : its type tag                                                  *)
(*   k     : "raw" (the bytes b as they are), "str" (a length n and the    *)
(*           bytes b) or "arr" (an element type et, a count n and the      *)
(*           elements elems)                                               *)
(* n is the declared length or count, which need not be the true one.      *)

Enc(order, digits) == IF order = "LE" THEN Reverse(digits) ELSE digits

mkRaw(t, bytes) == [k |-> "raw", t |-> t, et |-> 0, n |-> Zeros(8), b |-> bytes, elems |-> <<>>]

mkStrLie(n, bytes) == [k |-> "str", t |-> tString, et |-> 0, n |-> n, b |-> bytes, elems |-> <<>>]

mkStr(bytes) == mkStrLie(FromNat(Len(bytes), 8), bytes)

mkArrLie(et, n, elems) == [k |-> "arr", t |-> tArray, et |-> et, n |-> n, b |-> <<>>, elems |-> elems]

mkArr(et, elems) == mkArrLie(et, FromNat(Len(elems), 8), elems)

\* the bytes of a value after its tag
Payload(order, v) ==
    CASE v.k = "raw" -> v.b
      [] v.k = "str" -> Enc(order, v.n) \o v.b
      [] OTHER -> Enc(order, FromNat(v.et, 4)) \o Enc(order, v.n)
                    \o Flatten([i \in 1..Len(v.elems) |-> Payload(order, v.elems[i])])

\* the entries after the bytes sofar, padded before each value when align
EncEntries(order, align, entries, sofar) ==
    LET pad(pre) == IF align /\ Len(pre) % 8 # 0 THEN pre \o Zeros(8 - (Len(pre) % 8)) ELSE pre
    IN  IF entries = <<>> THEN sofar
        ELSE EncEntries(order, align, Tail(entries),
                 pad(sofar \o Enc(order, FromNat(Len(Head(entries).key), 8))
                           \o Head(entries).key
                           \o Enc(order, FromNat(Head(entries).val.t, 4)))
                 \o Payload(order, Head(entries).val))

Prologue(magic, version, tc, kv) == magic \o version \o tc \o kv

ScalarTags == (0..12) \ {tString, tArray}

\* the width of a scalar of type t in bytes
Width(t) ==
    CASE t \in {tUint8, tInt8, tBool} -> 1
      [] t \in {tUint16, tInt16} -> 2
      [] t \in {tUint32, tInt32, tFloat32} -> 4
      [] OTHER -> 8

ScalarOf(t, i) == mkRaw(t, [j \in 1..Width(t) |-> (16 * i + j) % 256])

StrOf(len) == mkStr([j \in 1..len |-> 96 + j])

\* a tag outside the 13 kinds
tUnknown == Len(typeNames)

U8s(n) == [i \in 1..n |-> ScalarOf(tUint8, i)]

\* the i-th nested array of an array of arrays
NestedOf(i) ==
    CASE i % 4 = 1 -> mkArr(tUint8, U8s(2))
      [] i % 4 = 2 -> mkArr(tString, <<StrOf(1)>>)
      [] i % 4 = 3 -> mkArr(tArray, <<mkArr(tUint16, <<ScalarOf(tUint16, 1)>>)>>)
      [] OTHER -> mkArr(tFloat64, <<>>)

ElemsOf(et, n) ==
    [i \in 1..n |-> CASE et = tString -> StrOf(i % (MaxString + 1))
                      [] et = tArray -> NestedOf(i)
                      [] OTHER -> ScalarOf(et, i)]

\* 2^40 and 2^64 - 1
Count40 == <<0, 0, 1, 0, 0, 0, 0, 0>>
CountMax == [i \in 1..8 |-> 255]

WellFormedArrays == {mkArr(et, ElemsOf(et, n)) : et \in 0..12, n \in 0..MaxCount}

OtherArrays ==
    {mkArrLie(tUnknown, FromNat(n, 8), <<>>) : n \in {0, 1, MaxCount}}
    \cup {mkArr(tArray, <<mkArr(tUint8, U8s(1)), mkArrLie(tUnknown, Zeros(8), <<>>)>>),
          mkArr(tArray, <<mkArrLie(tUnknown, FromNat(1, 8), <<>>)>>),
          mkArr(tString, <<StrOf(MaxString), StrOf(MaxString + 1)>>),
          mkArrLie(tUint8, Count40, U8s(2)),
          mkArrLie(tUint8, CountMax, U8s(1))}

OtherValues ==
    {ScalarOf(t, 1) : t \in ScalarTags}
    \cup {mkRaw(tBool, <<0>>), mkRaw(tUnknown, <<>>), mkStrLie(Count40, <<>>)}
    \cup {StrOf(len) : len \in 0..(MaxString + 1)}

KeyA == <<97>>
KeyAB == <<97, 98>>
KeyBC == <<98, 99>>
KeyC == <<99>>

\* the element types whose arrays are read under every key
MainElemTypes == {tUint8, tString, tArray}

ArrayEntries ==
    {[key |-> k, val |-> mkArr(et, ElemsOf(et, n))] :
        k \in {KeyA, KeyAB, KeyBC, KeyC}, et \in MainElemTypes, n \in 0..MaxCount}
    \cup {[key |-> k, val |-> mkArr(et, ElemsOf(et, n))] :
        k \in {KeyA, KeyC}, et \in (0..12) \ MainElemTypes, n \in 0..MaxCount}
    \cup {[key |-> k, val |-> v] : k \in {KeyA, KeyC}, v \in OtherArrays}

OtherEntries ==
    {[key |-> k, val |-> v] : k \in {KeyA, <<>>}, v \in OtherValues}
    \cup {[key |-> [j \in 1..(MaxString + 1) |-> 96 + j], val |-> ScalarOf(tUint8, 1)]}

Entries == ArrayEntries \cup OtherEntries

\* what follows the first entry, and the count of entries the prologue declares
Tails ==
    {<<<<>>, 1>>, <<<<>>, 2>>,
     <<<<[key |-> KeyA, val |-> ScalarOf(tUint16, 2)]>>, 1>>,
     <<<<[key |-> KeyA, val |-> ScalarOf(tUint16, 2)]>>, 2>>,
     <<<<[key |-> <<>>, val |-> StrOf(1)]>>, 3>>}

NoRules == [maxArray |-> MaxArray, maxString |-> MaxString, debug |-> FALSE,
            expandArrays |-> {}, expandPrefixes |-> <<>>]

\* --expand-arrays a,b*
SomeRules == [maxArray |-> MaxArray, maxString |-> MaxString, debug |-> FALSE,
              expandArrays |-> {KeyA}, expandPrefixes |-> <<<<98>>>>]

Policies == {NoRules, SomeRules}

\* a file with a good prologue
GoodInput(o, e, tl, al, c) ==
    [magic |-> magicGGUF, order |-> o, version |-> Enc(o, Three), tc |-> FromNat(258, 8),
     kv |-> FromNat(tl[2], 8), entries |-> <<e>> \o tl[1], align |-> al, cut |-> c]

\* a file whose magic or version may be bad, or that ends in or at its prologue
BadInput(o, m, ver, v, c) ==
    [magic |-> m, order |-> o, version |-> IF ver = <<>> THEN Enc(o, Three) ELSE ver,
     tc |-> FromNat(258, 8), kv |-> FromNat(1, 8),
     entries |-> <<[key |-> KeyA, val |-> v]>>, align |-> FALSE, cut |-> c]

\* the bytes cut off such a file: none, some of its entry, all of its entry
\* and some or all of its prologue
HeaderCuts == {0, 11, 12 + MaxCut, 30 + MaxCut, 36 + MaxCut}

BadMagics == {magicGGUF, <<71, 71, 85, 88>>, <<70, 85, 71, 71>>}

\* <<>> stands for version 3 in the order of the file
BadVersions == {<<>>, <<2, 0, 0, 0>>, <<3, 0, 0, 3>>, <<0, 3, 0, 0>>}

\* the bytes of the file
Bytes(i) ==
    LET cutOff(full) == SubSeq(full, 1, Len(full) - i.cut)
    IN  cutOff(EncEntries(i.order, i.align, i.entries,
                          Prologue(i.magic, i.version, Enc(i.order, i.tc), Enc(i.order, i.kv))))

-----------------------------------------------------------------------------
(* The state: main has parsed its flags and opened the file.               *)

noReturn == [fn |-> "", kv |-> noEvent, ok |-> FALSE, err |-> nil, key |-> <<>>]

Init ==
    /\ \/ \E o \in {"LE", "BE"}, e \in Entries, tl \in Tails, al \in BOOLEAN, c \in 0..MaxCut :
            /\ input = GoodInput(o, e, tl, al, c)
            /\ pol \in Policies
            \* the alignment mode and the run without rules are tried on the
            \* entries under the key "a" and the empty key
            /\ (al \/ pol = NoRules) => e.key \in {KeyA, <<>>}
       \/ \E o \in {"LE", "BE"}, m \in BadMagics, ver \in BadVersions,
              v \in {ScalarOf(tUint8, 1), StrOf(1)}, c \in HeaderCuts :
            /\ m # magicGGUF \/ ver # <<>> \/ c > 0
            /\ input = BadInput(o, m, ver, v, c)
            /\ pol \in Policies
    /\ alignBeforeValue = input.align
    /\ scn = newScanner(Bytes(input))
    /\ p = nilParser
    /\ hdr = noHeader
    /\ ret = noReturn
    /\ keys = <<>>
    /\ mpc = "start"
    /\ out = <<>>
    /\ nTrue = 0
    /\ failed = FALSE

\* p, hdr, err := newParser(f, fsize, pol)
NewParser ==
    /\ p.null /\ ret.fn = ""
    /\ \E r \in {newParser(scn.data, Len(scn.data))} :
        /\ scn' = r.s
        /\ p' = r.p
        /\ hdr' = r.hdr
        /\ ret' = [noReturn EXCEPT !.fn = "newParser", !.err = r.err]
    /\ UNCHANGED <<pol, alignBeforeValue, keys, mpc, out, nTrue, failed, input>>

\* kv, ok, err := p.nextKV(), called at any time on a parser that exists
NextKV ==
    /\ ~p.null /\ ret.err # Panic
    /\ \E r \in {nextKV(p, [scn EXCEPT !.log = <<>>])} :
        /\ scn' = r.s
        /\ p' = r.p
        /\ ret' = [fn |-> "nextKV", kv |-> r.kv, ok |-> r.ok, err |-> r.err, key |-> r.key]
        /\ nTrue' = IF r.ok THEN nTrue + 1 ELSE nTrue
        /\ failed' = (failed \/ r.err # nil)
    /\ UNCHANGED <<hdr, pol, alignBeforeValue, keys, mpc, out, input>>

Next == NewParser \/ NextKV

Spec == Init /\ [][Next]_vars

-----------------------------------------------------------------------------
(* main.go: the run of the program *)

\* the bytes strings.TrimSpace takes for white space, among those of the model
IsSpace(c) == c \in {9, 10, 11, 12, 13, 32}

TrimLeft(str) == IF str # <<>> /\ IsSpace(Head(str)) THEN TrimLeft(Tail(str)) ELSE str

TrimSpace(str) == Reverse(TrimLeft(Reverse(TrimLeft(str))))

matchKey(k) == IF keys # <<>> THEN HasPrefix(k, TrimSpace(keys)) ELSE TRUE

\* the values of --keys
Filters == {<<>>, <<32, 97>>}

\* flag.Parse to enc.Encode(hdr); log.Fatal ends the run
MainStart ==
    /\ mpc = "start"
    /\ \E f \in Filters, r \in {newParser(scn.data, Len(scn.data))} :
        /\ keys' = f
        /\ scn' = r.s
        /\ p' = r.p
        /\ hdr' = r.hdr
        /\ ret' = [noReturn EXCEPT !.fn = "newParser", !.err = r.err]
        /\ mpc' = IF r.err # nil THEN "fatal" ELSE "loop"
        /\ out' = IF r.err # nil THEN out
                  ELSE Append(out, [line |-> "header", hdr |-> r.hdr, kv |-> noEvent])
    /\ UNCHANGED <<pol, alignBeforeValue, nTrue, failed, input>>

\* the loop of main going on to the next entry after an error
MainLoop_Continue ==
    /\ mpc = "loop"
    /\ \E r \in {nextKV(p, [scn EXCEPT !.log = <<>>])} :
        /\ scn' = r.s
        /\ p' = r.p
        /\ ret' = [fn |-> "nextKV", kv |-> r.kv, ok |-> r.ok, err |-> r.err, key |-> r.key]
        /\ nTrue' = IF r.ok THEN nTrue + 1 ELSE nTrue
        /\ failed' = (failed \/ r.err # nil)
        /\ mpc' = IF r.err = Panic THEN "panic"
                  ELSE IF r.err # nil THEN (IF IsShortRead(r.err) THEN "fatal" ELSE "loop")
                  ELSE IF ~r.ok THEN "done"
                  ELSE "loop"
        /\ out' = IF r.err # nil \/ ~r.ok \/ r.kv.Key = <<>> \/ ~matchKey(r.kv.Key)
                  THEN out
                  ELSE Append(out, [line |-> "kv", hdr |-> noHeader, kv |-> r.kv])
    /\ UNCHANGED <<hdr, pol, alignBeforeValue, keys, input>>

\* one round of the loop of main
MainLoop ==
    /\ mpc = "loop"
    /\ \E r \in {nextKV(p, [scn EXCEPT !.log = <<>>])} :
        /\ scn' = r.s
        /\ p' = r.p
        /\ ret' = [fn |-> "nextKV", kv |-> r.kv, ok |-> r.ok, err |-> r.err, key |-> r.key]
        /\ nTrue' = IF r.ok THEN nTrue + 1 ELSE nTrue
        /\ failed' = (failed \/ r.err # nil)
        /\ mpc' = IF r.err = Panic THEN "panic"
                  ELSE IF r.err # nil THEN "fatal"
                  ELSE IF ~r.ok THEN "done"
                  ELSE "loop"
        /\ out' = IF r.err # nil \/ ~r.ok \/ r.kv.Key = <<>> \/ ~matchKey(r.kv.Key)
                  THEN out
                  ELSE Append(out, [line |-> "kv", hdr |-> noHeader, kv |-> r.kv])
    /\ UNCHANGED <<hdr, pol, alignBeforeValue, keys, input>>

MainNext == MainStart \/ MainLoop

MainSpec == Init /\ [][MainNext]_vars

-----------------------------------------------------------------------------
(* The claims *)

VersionLE == <<3, 0, 0, 0>>
VersionBE == <<0, 0, 0, 3>>

\* C1: a 24-byte prologue with the magic "GGUF" and version 3 in either byte
\* order makes newParser succeed; the scanner's order is the order that
\* matched, from then on; the header reports version 3 and the tensor and
\* key-value counts the file was written with, decoded in that order;
\* kvRemain starts at the key-value count and the position at 24.
C1_HeaderDecode ==
    /\ (ret.fn = "newParser" /\ Len(scn.data) >= 24 /\ SubSeq(scn.data, 1, 4) = magicGGUF
            /\ SubSeq(scn.data, 5, 8) \in {VersionLE, VersionBE})
        => /\ ret.err = nil /\ ~p.null
           /\ scn.order = (IF SubSeq(scn.data, 5, 8) = VersionLE THEN "LE" ELSE "BE")
           /\ hdr.Kind = "header" /\ hdr.Version = Three /\ p.version = Three
           /\ hdr.TensorCount = input.tc /\ p.tc = input.tc
           /\ hdr.KVCount = input.kv /\ p.kv = input.kv
           /\ p.kvRemain = input.kv
           /\ scn.pos = 24 /\ scn.off = 24
    /\ ~p.null => scn.order = input.order /\ p.endianHint = input.order

C1_Witness ==
    /\ ret.fn = "newParser" /\ ~p.null /\ input.order = "BE" /\ scn.order = "BE"
    /\ SubSeq(scn.data, 5, 8) = VersionBE
    /\ hdr.TensorCount = FromNat(258, 8) /\ p.kvRemain = FromNat(2, 8) /\ scn.pos = 24

\* C2: on one parser, the calls of nextKV that returned hasMore = true plus
\* kvRemain make keyValueCount, after any sequence of calls (failed ones and
\* no-more ones among them), so no more than keyValueCount records are made.
C2_Bookkeeping ==
    ~p.null => /\ AddNat(p.kvRemain, nTrue) = p.kv
               /\ nTrue <= NatOf(p.kv)
               /\ p.kv = hdr.KVCount

C2_Witness ==
    /\ ~p.null /\ nTrue = 2 /\ failed /\ ret.err # nil
    /\ p.kvRemain = FromNat(1, 8) /\ p.kv = FromNat(3, 8)

\* C3: a decode failure aborts the whole stream: once a call of nextKV has
\* returned an error, the failed call is the last one made on that parser
\* (main ends the run), so no later call returns a record and nothing is
\* decoded from the position where the failure left the scanner.
C3_FailureAborts ==
    failed => /\ mpc \in {"fatal", "panic"}
              /\ ret.fn = "nextKV" /\ ret.err # nil /\ ~ret.ok /\ ret.kv = noEvent
              /\ ~ENABLED MainNext

\* the run has ended on a failure although the bytes that follow would
\* decode as an entry
C3_Witness ==
    /\ failed /\ mpc = "fatal" /\ ret.err = ErrBadScalarTag
    /\ nextKV(p, scn).ok

\* the events of one kind in the log of the last call
Events(op) == {i \in 1..Len(scn.log) : scn.log[i].op = op}

\* the larger of the two limits the policy configures
ConfiguredCap == IF pol.maxArray > pol.maxString THEN pol.maxArray ELSE pol.maxString

\* C4: the declared element count of an array is checked against the
\* configured cap before anything is allocated by it: readExpandedArray
\* never asks make for a capacity above the cap (it fails instead).
C4_CountCapped ==
    \A i \in Events("make") : NatOf(scn.log[i].cap) <= ConfiguredCap

\* C5: GGUFString(maxLen) reads an 8-byte length L.  L > maxLen: it fails with
\* "string too large" having taken those 8 bytes and no more, from the
\* position counter and from the reader.  L <= maxLen: it takes 8 + L bytes and
\* returns the L bytes that follow the length (when the input ends before
\* them, the read of the L bytes is a short read and the position stays
\* after the length).  This for every call: keys, string values, elements.
C5_StringCap ==
    \A i \in Events("GGUFString") :
        LET e == scn.log[i]
            len == NatOf(e.n)
            left == Len(scn.data) - e.off0
        IN  left >= 8 =>
              /\ Enc(scn.order, e.n) = SubSeq(scn.data, e.off0 + 1, e.off0 + 8)
              /\ len > e.max =>
                    /\ e.err = ErrStringTooLarge /\ e.v = <<>>
                    /\ e.pos1 = e.pos0 + 8 /\ e.off1 = e.off0 + 8
              /\ (len <= e.max /\ left >= 8 + len) =>
                    /\ e.err = nil
                    /\ e.v = SubSeq(scn.data, e.off0 + 9, e.off0 + 8 + len)
                    /\ e.pos1 = e.pos0 + 8 + len /\ e.off1 = e.off0 + 8 + len
              /\ (len <= e.max /\ left < 8 + len) =>
                    /\ IsShortRead(e.err) /\ e.v = <<>> /\ e.pos1 = e.pos0 + 8

\* a key and an element were read, and the next element, longer than the
\* cap and present in the input, was refused
C5_Witness ==
    /\ Cardinality(Events("GGUFString")) = 3
    /\ \E i \in Events("GGUFString") :
          /\ scn.log[i].err = ErrStringTooLarge
          /\ Len(scn.data) - scn.log[i].off1 >= NatOf(scn.log[i].n)
          /\ scn.log[i].pos1 = scn.log[i].pos0 + 8
    /\ \E i \in Events("GGUFString") : scn.log[i].err = nil /\ Len(scn.log[i].v) = pol.maxString

\* pre is a prefix of str, byte by byte
IsPrefixOf(pre, str) == Len(pre) <= Len(str) /\ \A i \in 1..Len(pre) : str[i] = pre[i]

\* the key is named by --expand-arrays, exactly or by one of the prefixes
Explicit(key) ==
    key \in pol.expandArrays
        \/ \E j \in 1..Len(pol.expandPrefixes) : IsPrefixOf(pol.expandPrefixes[j], key)

\* C6: the explicit rules always win.  An array under a key that is in
\* explicitExpandKeys or starts with one of explicitExpandPrefixes is read by
\* readExpandedArray whatever its count (0, the threshold, far above it), and
\* comes back as the sequence of its elements, never as a placeholder; an
\* array under any other key never takes that branch.
C6_ExplicitWins ==
    \A i \in Events("readArray") :
        LET e == scn.log[i]
        IN  /\ Explicit(e.key) <=> Events("make") # {}
            /\ (Explicit(e.key) /\ ret.err = nil) =>
                    /\ ret.ok /\ ret.kv.Key = e.key
                    /\ ret.kv.Value.go = "slice"
                    /\ Len(ret.kv.Value.elems) = NatOf(e.n)
            /\ (~Explicit(e.key) /\ ret.err = nil) => ret.kv.Value.go = "map"

\* an array above the threshold, named by a prefix only, came back whole
C6_Witness ==
    /\ ret.ok /\ ret.kv.Key = KeyBC /\ KeyBC \notin pol.expandArrays
    /\ ret.kv.Value.go = "slice" /\ Len(ret.kv.Value.elems) > pol.maxArray
    /\ Events("readArray") # {}

\* C7: policy.maxArray is the size threshold of the default branch: an array
\* that no explicit rule names comes back as a placeholder when it has more
\* than maxArray elements and with its full content when it has at most
\* maxArray elements.
C7_Threshold ==
    \A i \in Events("readArray") :
        LET e == scn.log[i]
        IN  (~Explicit(e.key) /\ ret.err = nil) =>
                /\ NatOf(e.n) > pol.maxArray => ret.kv.Value.go = "map"
                /\ NatOf(e.n) <= pol.maxArray =>
                        /\ ret.kv.Value.go = "slice"
                        /\ Len(ret.kv.Value.elems) = NatOf(e.n)

\* the headers of arrays, outer and nested, in the log of the last call
HeaderEvents == {i \in 1..Len(scn.log) : scn.log[i].op \in {"readArray", "nested"}}

\* the scanner as it was right after the header noted in e
AfterHeader(e) == [scn EXCEPT !.pos = e.pos, !.off = e.off, !.log = <<>>]

\* the entry of the file that the last call read, when every call so far
\* has returned a record
EntryRead == input.entries[nTrue]

ReadInOrder == ret.fn = "nextKV" /\ ret.ok /\ ~failed /\ nTrue <= Len(input.entries)

\* C8: the placeholder path and the expand path take the same bytes.  From
\* the position after every array header the last call met (outer or nested,
\* any element type, any count), bulkSkipArrayElements and readExpandedArray
\* end alike (both succeed, or both fail with the same error) with the same
\* position counter and the same number of bytes taken from the reader;
\* nothing is compared where the expand path ends in the out-of-range
\* lookup of a nested unknown element type, which no well-formed array has.
\* For an array written whole and read as a placeholder, the count reported
\* is the count in its header, the number of its elements, and the bytes
\* taken are exactly the bytes of its elements.
C8_SameSpan ==
    /\ \A i \in HeaderEvents :
          LET same(sk, ex) ==
                  ex.err # Panic =>
                      /\ sk.err = ex.err
                      /\ sk.s.pos = ex.s.pos
                      /\ sk.s.off = ex.s.off
              from(s0, et, n) ==
                  same(bulkSkipArrayElements(s0, et, n), readExpandedArray(s0, et, n, ElemName(et)))
          IN  from(AfterHeader(scn.log[i]), scn.log[i].et, scn.log[i].n)
    /\ (ReadInOrder /\ EntryRead.val.k = "arr") =>
          \A i \in Events("readArray") :
              LET e == scn.log[i]
              IN  /\ e.n = EntryRead.val.n /\ NatOf(e.n) = Len(EntryRead.val.elems)
                  /\ e.n = orderUint(scn.order, SubSeq(scn.data, e.off - 7, e.off))
                  /\ scn.pos = e.pos + Len(Payload(scn.order, EntryRead.val)) - 12
                  /\ scn.off = e.off + Len(Payload(scn.order, EntryRead.val)) - 12
                  /\ ~Explicit(e.key) =>
                        /\ ret.kv.Value.go = "map"
                        /\ ret.kv.Value._placeholder = "array"
                        /\ ret.kv.Value.count = e.n

\* an array of arrays, one of them holding an array itself, was read as a
\* placeholder, and from the position after its header both paths pass over
\* all of it
C8_Witness ==
    /\ ReadInOrder /\ ~Explicit(ret.kv.Key)
    /\ ret.kv.Value.go = "map" /\ ret.kv.Value.element_type = "array"
    /\ NatOf(ret.kv.Value.count) >= 3
    /\ \E i \in Events("nested") : NatOf(scn.log[i].et) = tArray /\ scn.log[i].by = "skip"
    /\ \E i \in Events("readArray") :
          /\ bulkSkipArrayElements(AfterHeader(scn.log[i]), scn.log[i].et, scn.log[i].n).s.pos = scn.pos
          /\ readExpandedArray(AfterHeader(scn.log[i]), scn.log[i].et, scn.log[i].n, "array").s.pos = scn.pos
          /\ scn.pos > scn.log[i].pos + 36

\* the nested headers that readExpandedArray itself read, in stream order
ExpandedHeaders == SelectSeq(scn.log, LAMBDA e : e.op = "nested" /\ e.by = "expand")

\* v holds nothing but the placeholder of a nested array
IsNestedPlaceholder(v) ==
    /\ v.go = "map" /\ DOMAIN v = {"go", "_placeholder", "count", "element_type"}
    /\ v._placeholder = "nested_array"

\* C9: expansion is one level deep.  When an array of arrays under a key
\* that an explicit rule names has been read, the value is the sequence of
\* as many nested placeholders as the header declares, in stream order: the
\* i-th one carries the count and the name of the element type of the i-th
\* nested header, as they stand in the bytes of that header, and no element
\* is a decoded scalar or a sequence, however deep the nesting in the file.
\* Against the file as it was written: the i-th placeholder describes the
\* i-th nested array of the entry.
C9_OneLevel ==
    \A i \in Events("readArray") :
        LET e == scn.log[i]
            elems == ret.kv.Value.elems
            hs == ExpandedHeaders
        IN  (Explicit(e.key) /\ NatOf(e.et) = tArray /\ ret.err = nil) =>
              /\ ret.ok /\ ret.kv.Value.go = "slice"
              /\ Len(elems) = NatOf(e.n) /\ Len(hs) = NatOf(e.n)
              /\ \A j \in 1..Len(elems) :
                    /\ IsNestedPlaceholder(elems[j])
                    /\ elems[j].count = hs[j].n
                    /\ elems[j].element_type = typeNames[NatOf(hs[j].et) + 1]
                    /\ hs[j].et = orderUint(scn.order, SubSeq(scn.data, hs[j].off - 11, hs[j].off - 8))
                    /\ hs[j].n = orderUint(scn.order, SubSeq(scn.data, hs[j].off - 7, hs[j].off))
                    /\ j > 1 => hs[j].off > hs[j - 1].off
              /\ ReadInOrder =>
                    /\ Len(elems) = Len(EntryRead.val.elems)
                    /\ \A j \in 1..Len(elems) :
                          /\ elems[j].count = EntryRead.val.elems[j].n
                          /\ elems[j].element_type = typeNames[EntryRead.val.elems[j].et + 1]

\* an array of three arrays was expanded; the third one holds an array in
\* the file and came back as a placeholder of one element of type array
C9_Witness ==
    /\ ReadInOrder /\ Explicit(ret.kv.Key) /\ EntryRead.val.et = tArray
    /\ ret.kv.Value.go = "slice" /\ Len(ret.kv.Value.elems) >= 3
    /\ IsNestedPlaceholder(ret.kv.Value.elems[3])
    /\ ret.kv.Value.elems[3].element_type = "array"
    /\ ret.kv.Value.elems[3].count = FromNat(1, 8)
    /\ EntryRead.val.elems[3].elems[1].k = "arr"
    /\ ret.kv.Value.elems[1].element_type = "uint8"

\* the element type in the header e is none of the 13 known kinds
UnknownElementType(e) == ~(NatOf(e.et) < Len(typeNames))

C11_NoMoreNoRead ==
    [][(~p.null /\ p.kvRemain = Zeros(8)) =>
            /\ ret'.fn = "nextKV"
            /\ ret'.kv = noEvent /\ ~ret'.ok /\ ret'.err = nil
            /\ scn'.pos = scn.pos /\ scn'.off = scn.off /\ scn'.log = <<>>
            /\ p' = p]_vars

\* no-more was returned without a read although an entry follows in the
\* input, and the next call is one more no-more
C11_Witness ==
    /\ ~p.null /\ p.kvRemain = Zeros(8) /\ nTrue = 1 /\ ~failed
    /\ ret.fn = "nextKV" /\ ret.kv = noEvent /\ ~ret.ok /\ ret.err = nil
    /\ scn.log = <<>> /\ Len(scn.data) - scn.off >= 11
    /\ Len(input.entries) = 2
    /\ ~nextKV(p, scn).ok /\ nextKV(p, scn).s.pos = scn.pos

\* C12 as stated: newParser fails with "bad magic" on every input whose
\* first 4 bytes are not "GGUF", whatever bytes and however many follow
\* them, and returns no parser and no header; the magic is looked at before
\* the version.
C12_BadMagicAlways ==
    (ret.fn = "newParser" /\ Len(scn.data) >= 4 /\ SubSeq(scn.data, 1, 4) # magicGGUF) =>
        /\ ret.err = ErrBadMagic
        /\ p.null /\ hdr = noHeader

\* C12 as amended: newParser reads the 24 bytes of the prologue before it
\* looks at any of them.  On an input of 24 bytes or more whose first 4
\* bytes are not "GGUF" it fails with "bad magic", whatever the version
\* field and the bytes after it hold; on an input of fewer than 24 bytes it
\* fails with the error of the header read, whatever its first bytes are.
\* Both ways it returns no parser and no header.
C12_BadMagicWhole ==
    ret.fn = "newParser" =>
        /\ (Len(scn.data) >= 24 /\ SubSeq(scn.data, 1, 4) # magicGGUF) =>
                /\ ret.err = ErrBadMagic
                /\ p.null /\ hdr = noHeader
        /\ Len(scn.data) < 24 =>
                /\ ret.err = ErrHeader
                /\ p.null /\ hdr = noHeader
                /\ scn.pos = 0 /\ scn.off = Len(scn.data)

\* a whole prologue with a wrong magic and a version that is not 3 either
\* was refused for its magic
C12_Witness ==
    /\ ret.fn = "newParser" /\ ret.err = ErrBadMagic /\ p.null /\ hdr = noHeader
    /\ Len(scn.data) > 24
    /\ SubSeq(scn.data, 1, 4) = <<71, 71, 85, 88>>
    /\ headerOrder(SubSeq(scn.data, 1, 24)) = "nil"

\* the decoding of the first k entries of the file with no filter in sight:
\* the scanner, the parser and the records of k calls of nextKV
Replay(k) ==
    LET start(r) == [s |-> r.s, p |-> r.p, recs |-> <<>>]
        step(prev, r) == [s |-> r.s, p |-> r.p, recs |-> Append(prev.recs, r.kv)]
        after(prev) == step(prev, nextKV(prev.p, [prev.s EXCEPT !.log = <<>>]))
    IN  IF k = 0 THEN start(newParser(scn.data, Len(scn.data))) ELSE after(Replay(k - 1))

\* the records of the kv lines written so far
KvLines == [i \in 1..(Len(out) - 1) |-> out[i + 1].kv]

\* C13: the --keys filter never touches the bookkeeping: after every round
\* of the loop of main, kvRemain, the scanner position and the record
\* decoded are those of the same calls made with no filter at all, and the
\* kv lines written are exactly the decoded records whose key starts with
\* the filter, in order.
C13_FilterFrame ==
    (mpc \in {"loop", "done"} /\ ~failed) =>
        LET same(rp) ==
                /\ p = rp.p /\ scn.pos = rp.s.pos /\ scn.off = rp.s.off
                /\ (nTrue > 0 /\ mpc = "loop") => ret.kv = rp.recs[nTrue]
                /\ KvLines = SelectSeq(rp.recs, LAMBDA kv : HasPrefix(kv.Key, keys))
        IN  same(Replay(nTrue))

\* the part of C13 about the bookkeeping alone
C13_Bookkeeping ==
    (mpc \in {"loop", "done"} /\ ~failed) =>
        LET same(rp) ==
                /\ p = rp.p /\ scn.pos = rp.s.pos /\ scn.off = rp.s.off
                /\ (nTrue > 0 /\ mpc = "loop") => ret.kv = rp.recs[nTrue]
        IN  same(Replay(nTrue))

\* C14: every entry that nextKV decodes yields one record, in stream order:
\* with no --keys filter the kv lines written after the header are as many
\* as the calls of nextKV that returned a record, the line of the last such
\* call is its record, and no decoded entry is left out, whatever its key
\* (a key met before, a key of length 0).
C14_OnePerEntry ==
    (keys = <<>> /\ Len(out) >= 1) =>
        /\ Len(out) - 1 = nTrue
        /\ (ret.fn = "nextKV" /\ ret.ok) => out[Len(out)].kv = ret.kv

\* the reads of the last call, in order
Reads == SelectSeq(scn.log, LAMBDA e : e.op = "readExact")

\* the position counter and the bytes taken from the reader after the i-th
\* read of the last call
PosAfter(i) == IF i < Len(Reads) THEN Reads[i + 1].pos0 ELSE scn.pos
OffAfter(i) == IF i < Len(Reads) THEN Reads[i + 1].off0 ELSE scn.off

\* C15: the position counter is the number of bytes taken from the reader,
\* in every state and before and after every read: a read that succeeds
\* moves both by the width asked for, a read that fails for want of bytes
\* leaves the counter at the number of bytes taken, and the counter never
\* goes back.
C15_PosIsConsumed ==
    /\ scn.pos = scn.off
    /\ \A i \in 1..Len(Reads) :
          /\ Reads[i].pos0 = Reads[i].off0
          /\ PosAfter(i) >= Reads[i].pos0
          /\ Reads[i].ok => PosAfter(i) = Reads[i].pos0 + Reads[i].n
          /\ PosAfter(i) = OffAfter(i)

\* what the code keeps of C15: successful reads move the counter by their
\* width, the counter never goes back and never runs ahead of the reader
C15_PosOfWholeReads ==
    /\ scn.pos <= scn.off
    /\ \A i \in 1..Len(Reads) :
          /\ PosAfter(i) >= Reads[i].pos0
          /\ Reads[i].ok => /\ PosAfter(i) = Reads[i].pos0 + Reads[i].n
                             /\ OffAfter(i) = Reads[i].off0 + Reads[i].n
          /\ ~Reads[i].ok => PosAfter(i) = Reads[i].pos0 /\ OffAfter(i) = Len(scn.data)

\* the largest of a finite set of naturals that is not empty
MaxOf(S) == CHOOSE m \in S : \A x \in S : x <= m

\* how deep the arrays of a value nest: 0 for a scalar or a string, 1 for
\* an array of those
NestDepth(v) ==
    IF v.k # "arr" THEN 0
    ELSE IF v.elems = <<>> THEN 1
    ELSE 1 + MaxOf({NestDepth(v.elems[i]) : i \in 1..Len(v.elems)})

\* C16: bulkSkipArrayElements goes through nested arrays without a frame
\* per level of nesting: at no moment of a call of nextKV is more than one
\* call of bulkSkipArrayElements active, however deep the arrays of the
\* input nest.
C16_SkipFramesBounded ==
    \A i \in Events("skipFrame") : scn.log[i].depth <= 1

\* the frames that are active at once are as many as the levels of nesting
\* of the array skipped
C16_FramesFollowDepth ==
    (ReadInOrder /\ EntryRead.val.k = "arr" /\ ~Explicit(ret.kv.Key)) =>
        MaxOf({scn.log[i].depth : i \in Events("skipFrame")}) = NestDepth(EntryRead.val)

\* C17: no call ends in the crash of a table lookup out of range: whatever
\* the bytes and the policy, every tag is checked before typeNames or
\* scalars is indexed with it, so a call returns a record, no-more or an
\* error.
C17_NoCrash ==
    ret.err # Panic

\* the last call returned a record, no-more, or an error and no record
ReturnedRecord == ret.ok /\ ret.err = nil
ReturnedNoMore == ~ret.ok /\ ret.err = nil /\ ret.kv = noEvent
ReturnedError == ~ret.ok /\ ret.err \notin {nil, Panic} /\ ret.kv = noEvent

\* the loops of the two paths take at least one byte per round: a call that
\* returned a record has taken, after every array header it met, no fewer
\* bytes than the header declares elements; a header that declares more
\* elements than bytes are left makes the call fail and return no record,
\* with a short read when the elements are scalars of a known type
LoopsProgress ==
    \A i \in HeaderEvents :
        LET e == scn.log[i]
            left == Len(scn.data) - e.off
        IN  /\ ret.ok => NatOf(e.n) <= scn.off - e.off
            /\ NatOf(e.n) > left =>
                  /\ ~ret.ok /\ ret.err # nil /\ ret.kv = noEvent
                  /\ NatOf(e.et) \in ScalarTags => IsShortRead(ret.err)

\* C18: every call of nextKV ends, and ends with a record, with no-more or
\* with an error: the loops that skip or expand an array take at least one
\* byte per round or fail, so an array, at any level of nesting, that
\* declares more elements than the input has bytes left ends in a short
\* read and not after as many rounds as it declares, and no record comes
\* with a failure.
C18_Terminates ==
    /\ ret.fn = "nextKV" => (ReturnedRecord \/ ReturnedNoMore \/ ReturnedError)
    /\ LoopsProgress

====
